---- MODULE Spec2Model ----
(***************************************************************************)
(* Model of the Excel extraction front-end (app.py): the request handler   *)
(* process_excel_file, the two invocations of the external eparse tool,    *)
(* the line scanner _parse_eparse_output, create_visualizations and        *)
(* format_summary; of the enhanced front-end (app_enhanced.py): the        *)
(* handler process_excel_file_enhanced, _extract_detailed_data and its     *)
(* charts and summary; of the requests of one server process and the files *)
(* they write; and of the launcher (run_app.py).                           *)
(*                                                                         *)
(* A Python str is a sequence of pieces.  The text the tool prints is a    *)
(* sequence over Alphabet, whose pieces are single characters and the two  *)
(* markers 'sheet:' and 'c_header:'; no piece is a prefix of another and   *)
(* no marker arises across a boundary, so equal sequences are equal        *)
(* strings and conversely.  A Python dict is a record, None is NoneValue.  *)
(***************************************************************************)
EXTENDS Integers, Sequences, FiniteSets, TLC

\* Longest tool output (in pieces) the model enumerates.
MaxLen == 5

NL == "\n"
SheetMarker == "sheet:"
ColMarker == "c_header:"
Whitespace == {" ", NL}
Alphabet == {" ", NL, "=", "A", "B", SheetMarker, ColMarker}
Separator == <<"=", "=", "=">>

Texts == UNION {[1..n -> Alphabet] : n \in 0..MaxLen}

NoneValue == [type |-> "NoneType"]

----------------------------------------------------------------------------
(* str methods used by the scanner *)

\* s.lstrip()
RECURSIVE LStrip(_)
LStrip(s) ==
    IF s = <<>> THEN <<>>
    ELSE IF Head(s) \in Whitespace THEN LStrip(Tail(s)) ELSE s

\* s.rstrip()
RECURSIVE RStrip(_)
RStrip(s) ==
    IF s = <<>> THEN <<>>
    ELSE IF s[Len(s)] \in Whitespace THEN RStrip(SubSeq(s, 1, Len(s) - 1)) ELSE s

\* s.strip()
Strip(s) == RStrip(LStrip(s))

\* s.split(sep) for a one-piece separator: never empty, '' gives [''].
RECURSIVE Split(_, _)
Split(s, sep) ==
    IF \E i \in 1..Len(s) : s[i] = sep
    THEN LET k == CHOOSE i \in 1..Len(s) :
                      s[i] = sep /\ \A j \in 1..(i - 1) : s[j] # sep
         IN  <<SubSeq(s, 1, k - 1)>> \o Split(SubSeq(s, k + 1, Len(s)), sep)
    ELSE <<s>>

\* s.split(): the words between runs of whitespace; [] when there is none.
RECURSIVE SplitWords(_)
SplitWords(s) ==
    LET t == LStrip(s) IN
    IF t = <<>> THEN <<>>
    ELSE IF \E i \in 1..Len(t) : t[i] \in Whitespace
         THEN LET k == CHOOSE i \in 1..Len(t) :
                           t[i] \in Whitespace /\ \A j \in 1..(i - 1) : t[j] \notin Whitespace
              IN  <<SubSeq(t, 1, k - 1)>> \o SplitWords(SubSeq(t, k + 1, Len(t)))
         ELSE <<t>>

\* s.startswith(prefix)
StartsWith(s, prefix) ==
    Len(s) >= Len(prefix) /\ SubSeq(s, 1, Len(prefix)) = prefix

\* marker in s
Contains(s, piece) == \E i \in 1..Len(s) : s[i] = piece

\* s.split(marker)[-1]
AfterLast(s, marker) == LET parts == Split(s, marker) IN parts[Len(parts)]

\* list(a_set): the iteration order of a set of str is not fixed by the
\* language (it follows the per-process string hash), so every order of the
\* elements is a possible list.
ListOfSet(S) ==
    {l \in [1..Cardinality(S) -> S] : \A i, j \in 1..Cardinality(S) : l[i] = l[j] => i = j}

----------------------------------------------------------------------------
(* dicts *)

\* d.get(key, default)
Get(d, key, default) == IF key \in DOMAIN d THEN d[key] ELSE default

\* str(n) for a non-negative int, one piece per digit
Digits == <<"0", "1", "2", "3", "4", "5", "6", "7", "8", "9">>

RECURSIVE Str(_)
Str(n) == IF n < 10 THEN <<Digits[n + 1]>> ELSE Str(n \div 10) \o <<Digits[(n % 10) + 1]>>

\* sep.join(parts)
RECURSIVE Join(_, _)
Join(sep, parts) ==
    IF parts = <<>> THEN <<>>
    ELSE IF Len(parts) = 1 THEN parts[1]
    ELSE parts[1] \o sep \o Join(sep, Tail(parts))

----------------------------------------------------------------------------
(* ExcelExtractor._parse_eparse_output *)

IndexErrorMsg == <<"list index out of range">>

\* line.split(marker)[-1].split()[0]; IndexError when no word follows
NameAfter(line, marker) == SplitWords(AfterLast(line, marker))

\* ScanLine with the two marker tests moved out of the test that counts the
\* line: every line is searched for names.
ScanLineEveryLine(acc, line) ==
    IF acc.raised THEN acc
    ELSE LET counted ==
                 IF Strip(line) # <<>> /\ ~StartsWith(line, Separator)
                 THEN [acc EXCEPT !.total_rows = @ + 1] ELSE acc
             sw == NameAfter(line, SheetMarker)
             cw == NameAfter(line, ColMarker)
             withSheet ==
                 IF Contains(line, SheetMarker)
                 THEN IF sw = <<>> THEN [counted EXCEPT !.raised = TRUE]
                      ELSE [counted EXCEPT !.sheets = @ \cup {sw[1]}]
                 ELSE counted
         IN  IF withSheet.raised THEN withSheet
             ELSE IF Contains(line, ColMarker)
             THEN IF cw = <<>> THEN [withSheet EXCEPT !.raised = TRUE]
                  ELSE [withSheet EXCEPT !.columns = @ \cup {cw[1]}]
             ELSE withSheet

\* One pass of the loop body over a line.  acc.raised records that an
\* earlier statement raised, which ends the loop.
ScanLine(acc, line) ==
    IF acc.raised THEN acc
    ELSE IF Strip(line) # <<>> /\ ~StartsWith(line, Separator)
    THEN LET counted == [acc EXCEPT !.total_rows = @ + 1]
             sw == NameAfter(line, SheetMarker)
             cw == NameAfter(line, ColMarker)
             withSheet ==
                 IF Contains(line, SheetMarker)
                 THEN IF sw = <<>> THEN [counted EXCEPT !.raised = TRUE]
                      ELSE [counted EXCEPT !.sheets = @ \cup {sw[1]}]
                 ELSE counted
         IN  IF withSheet.raised THEN withSheet
             ELSE IF Contains(line, ColMarker)
             THEN IF cw = <<>> THEN [withSheet EXCEPT !.raised = TRUE]
                  ELSE [withSheet EXCEPT !.columns = @ \cup {cw[1]}]
             ELSE withSheet
    ELSE acc

RECURSIVE ScanLines(_, _)
ScanLines(acc, lines) ==
    IF lines = <<>> THEN acc
    ELSE ScanLines(ScanLine(acc, Head(lines)), Tail(lines))

\* The loop over output.strip().split('\n'), from the initial data dict.
Scanned(output) ==
    ScanLines([total_rows |-> 0, sheets |-> {}, columns |-> {}, raised |-> FALSE],
              Split(Strip(output), NL))

ParseRaises(output) == Scanned(output).raised

\* The names a list collects with append: one entry per line that has one.
RECURSIVE Appended(_, _)
Appended(lines, key) ==
    IF lines = <<>> THEN <<>>
    ELSE LET here == ScanLine([total_rows |-> 0, sheets |-> {}, columns |-> {},
                               raised |-> FALSE], Head(lines))[key]
         IN  (IF here = {} THEN <<>> ELSE <<CHOOSE n \in here : TRUE>>)
             \o Appended(Tail(lines), key)

\* ParseEparseOutput with data["sheets"] and data["columns"] kept as lists
\* from the start (append instead of add).
ParseEparseOutputAppending(output) ==
    LET acc == Scanned(output) IN
    IF acc.raised THEN {}
    ELSE {[tables |-> <<>>,
           sheets |-> Appended(Split(Strip(output), NL), "sheets"),
           columns |-> Appended(Split(Strip(output), NL), "columns"),
           total_rows |-> acc.total_rows]}

\* The dicts _parse_eparse_output may return for output (one per order in
\* which list() walks the two sets); empty when it raises.
ParseEparseOutput(output) ==
    LET acc == Scanned(output) IN
    IF acc.raised THEN {}
    ELSE {[tables |-> <<>>, sheets |-> sl, columns |-> cl, total_rows |-> acc.total_rows] :
              sl \in ListOfSet(acc.sheets), cl \in ListOfSet(acc.columns)}

----------------------------------------------------------------------------
(* create_visualizations and format_summary *)

\* max(a, b)
Max(a, b) == IF a >= b THEN a ELSE b

\* go.Figure() with one annotation and a title
Placeholder(text, title) == [kind |-> "annotation", text |-> text, title |-> title]

\* The figure of the except branch for chart i.
ErrorFigure(i) ==
    [kind |-> "annotation",
     text |-> <<"Chart ">> \o Str(i) \o <<": Error creating visualization">>,
     title |-> <<"Chart ">> \o Str(i)]

\* Chart 1: the gauge; its axis ends at max(total_rows * 1.2, 1), kept in tenths.
OverviewFigure(data) ==
    [kind |-> "indicator",
     value |-> Get(data, "total_rows", 0),
     axis_max_tenths |-> Max(Get(data, "total_rows", 0) * 12, 10),
     title |-> <<"Data Overview">>]

\* NamesFigure without the test of data.get(key): the bar chart is always built.
NamesFigureUnguarded(data, key, title, missing) ==
    LET names == Get(data, key, <<>>) IN
    [kind |-> "bar", x |-> names, y |-> [i \in 1..Len(names) |-> Len(names)],
     title |-> title]

\* Chart 2 (key "sheets") and chart 3 (key "columns"): a bar per name, or the
\* placeholder when data.get(key) is falsy.
NamesFigure(data, key, title, missing) ==
    LET names == Get(data, key, <<>>) IN
    IF names # <<>>
    THEN [kind |-> "bar", x |-> names, y |-> [i \in 1..Len(names) |-> Len(names)],
          title |-> title]
    ELSE Placeholder(missing, title)

\* Chart 4: the table of the three numbers.
TableFigure(data) ==
    [kind |-> "table",
     header |-> <<"Metric", "Value">>,
     cells |-> <<<<"Total Rows", "Sheets", "Columns">>,
                 <<Get(data, "total_rows", 0), Len(Get(data, "sheets", <<>>)),
                   Len(Get(data, "columns", <<>>))>>>>,
     title |-> <<"Data Summary">>]

SheetsChart(data) ==
    NamesFigure(data, "sheets", <<"Sheets Found">>, <<"No sheet data available">>)

ColumnsChart(data) ==
    NamesFigure(data, "columns", <<"Columns Found">>, <<"No column data available">>)

\* create_visualizations(data).  failAt = 0: no chart construction raises;
\* failAt = k in 1..4: building chart k raises, the charts appended so far stay
\* in the list and the except branch appends four more.
CreateVisualizations(data, failAt) ==
    LET built == <<OverviewFigure(data), SheetsChart(data), ColumnsChart(data),
                   TableFigure(data)>>
    IN  IF failAt = 0 THEN built
        ELSE SubSeq(built, 1, failAt - 1) \o [i \in 1..4 |-> ErrorFigure(i)]

\* The lines "- name" of a list of names
Bullets(names) == [i \in 1..Len(names) |-> <<"- ">> \o names[i]]

\* format_summary(data): the template with its five substitutions (the emoji
\* of the headings are left out: they are the same in every summary).
FormatSummary(data) ==
    <<NL, "## Excel Data Extraction Summary", NL, NL,
      "### Data Overview", NL,
      "- **Total Data Points**: ">> \o Str(Get(data, "total_rows", 0)) \o
    <<NL, "- **Number of Sheets**: ">> \o Str(Len(Get(data, "sheets", <<>>))) \o
    <<NL, "- **Number of Columns**: ">> \o Str(Len(Get(data, "columns", <<>>))) \o
    <<NL, NL, "### Sheets Found", NL>> \o
    Join(<<NL>>, Bullets(Get(data, "sheets", <<>>))) \o
    <<NL, NL, "### Columns Identified", NL>> \o
    Join(<<NL>>, Bullets(Get(data, "columns", <<>>))) \o
    <<NL, NL, "### Extraction Details", NL,
      "The data has been successfully extracted and chunked for analysis. ", NL,
      "Each data point maintains its relationship with headers and sheet information.",
      NL, NL, "### Next Steps", NL,
      "- Use the visualizations below to explore the data structure", NL,
      "- Query specific data points using the extracted information", NL,
      "- Export data for further analysis in other tools", NL>>

----------------------------------------------------------------------------
(* Exceptions and the except clauses of the three functions *)

\* The exceptions the steps raise: the class, str(e) and, for
\* CalledProcessError, e.stderr.
OSError == [cls |-> "OSError", msg |-> <<"[Errno 28] No space left on device">>]
FileNotFoundError ==
    [cls |-> "FileNotFoundError",
     msg |-> <<"[Errno 2] No such file or directory: 'eparse'">>]
IndexError == [cls |-> "IndexError", msg |-> IndexErrorMsg]
CalledProcessError(stderr) ==
    [cls |-> "CalledProcessError",
     msg |-> <<"Command '['eparse', ...]' returned non-zero exit status 1.">>,
     stderr |-> stderr]

\* ExceptClauses with the handler's try statement catching nothing.
ExceptClausesNoCatchAll(fn) ==
    CASE fn = "_extract_from_database" -> <<"CalledProcessError">>
      [] fn = "extract_from_excel" -> <<"CalledProcessError", "Exception">>
      [] fn = "process_excel_file" -> <<>>
      [] fn = "_extract_detailed_data" -> <<"Exception">>
      [] fn = "process_excel_file_enhanced" -> <<"Exception">>

\* The except clauses of each try statement, in order.
ExceptClauses(fn) ==
    CASE fn = "_extract_from_database" -> <<"CalledProcessError">>
      [] fn = "extract_from_excel" -> <<"CalledProcessError", "Exception">>
      [] fn = "process_excel_file" -> <<"Exception">>
      [] fn = "_extract_detailed_data" -> <<"Exception">>
      [] fn = "process_excel_file_enhanced" -> <<"Exception">>

\* isinstance(e, clause): every class above derives from Exception.
IsInstance(e, clause) == clause = "Exception" \/ clause = e.cls

\* The clause of fn that handles e, or "none".
Handler(fn, e) ==
    LET clauses == ExceptClauses(fn)
        hits == {i \in 1..Len(clauses) : IsInstance(e, clauses[i])}
    IN  IF hits = {} THEN "none"
        ELSE clauses[CHOOSE i \in hits : \A j \in hits : i <= j]

\* The innermost function of the try statements around the raise (stack,
\* innermost first) that handles e, or "nobody".
RECURSIVE CaughtBy(_, _)
CaughtBy(stack, e) ==
    IF stack = <<>> THEN "nobody"
    ELSE IF Handler(Head(stack), e) # "none" THEN Head(stack)
    ELSE CaughtBy(Tail(stack), e)

\* The try statements around the body of each function.
InProcess == <<"process_excel_file">>
InExtract == <<"extract_from_excel">> \o InProcess
InDatabase == <<"_extract_from_database">> \o InExtract

----------------------------------------------------------------------------
(* The request handler process_excel_file and ExcelExtractor, step by step *)

VARIABLES
    pc,           \* where the current request is
    file,         \* the handler's argument: None or an upload with a name
    extractor,    \* the request's ExcelExtractor (temp_dir, db_files), or None
    extractRuns,  \* calls of subprocess.run(['eparse', ..., 'parse', '-z']) so far
    extractProc,  \* the process of the extraction once it exited, or None
    queryRuns,    \* calls of subprocess.run(['eparse', ..., 'query']) so far
    queryProc,    \* the process of the query once it exited, or None
    scan,         \* "none", or how _parse_eparse_output ended: "returned", "raised"
    raised,       \* the exception raised in this request, or None
    result,       \* what extract_from_excel returned, or None
    charts,       \* what create_visualizations returned, or <<>>
    out,          \* the tuple process_excel_file returned, or <<>>
    db,           \* the database _extract_detailed_data has read, or None
    reqs,         \* the server: every request's kind, position and extractor
    fs,           \* the server: the directories and files written, by path
    lpc,          \* the launcher: where main is
    choice,       \* the launcher: the last answer, stripped
    prompts,      \* the launcher: calls of input() so far
    printed,      \* the launcher: the lines printed so far
    modules,      \* the launcher: the modules imported (sys.modules)
    launched      \* the apps whose interface is being served

\* One request at a time, as the handler sees it.
handlerVars == <<pc, file, extractor, extractRuns, extractProc, queryRuns, queryProc,
                 scan, raised, result, charts, out, db>>

\* The requests of one server process and its file system.
serverVars == <<reqs, fs>>

\* The launcher run_app.py.
launcherVars == <<lpc, choice, prompts, printed, modules, launched>>

\* What a handler step never touches.
outside == <<serverVars, launcherVars>>

\* The state of the enhanced app that the basic app never touches.
enhVars == <<db>>
notBasic == <<enhVars, outside>>

vars == <<handlerVars, serverVars, launcherVars>>

\* Most requests the model lets one server process take.
MaxRequests == 2

RequestIds == 1..MaxRequests

\* A request that has not arrived.
NoRequest ==
    [kind |-> "none", at |-> "new", file |-> NoneValue, temp_dir |-> 0, uri |-> <<>>,
     error |-> "none", reads |-> {}, stdout |-> <<>>, result |-> NoneValue,
     charts |-> <<>>, returned |-> <<>>]

\* What the environment can hand the handler and the tool can answer.
Uploads == {NoneValue, [name |-> "book.xlsx"]}
StderrTexts == {<<"boom">>, <<"bad workbook">>}

PromptMsg == <<"Please upload an Excel file.">>
NoDatabaseMsg == <<"No database files created">>

\* EparseError reporting the captured standard output (e.output) instead.
EparseErrorFromOutput(e) == [error |-> <<"eparse error: ">> \o <<>>]

\* except subprocess.CalledProcessError in extract_from_excel
EparseError(e) == [error |-> <<"eparse error: ">> \o e.stderr]

\* except Exception in extract_from_excel
GeneralError(e) == [error |-> <<"General error: ">> \o e.msg]

\* except subprocess.CalledProcessError in _extract_from_database
QueryError(e) == [error |-> <<"Database query error: ">> \o e.stderr]

\* The dict extract_from_excel returns once _extract_from_database returned.
Success(data, db_files) ==
    [success |-> TRUE, data |-> data, db_file |-> db_files[1],
     message |-> <<"Data extracted successfully">>]

\* outputs=[...] of upload_btn.click in create_interface
ProcessOutputs == <<"summary_output", "chart1", "chart2", "chart3", "chart4">>

\* The returns of process_excel_file that carry no charts.
ErrorReturn(text) == <<text, NoneValue, NoneValue, NoneValue, NoneValue>>

\* except Exception in process_excel_file
ProcessingError(e) == ErrorReturn(<<"Error processing file: ">> \o e.msg)

\* e is raised inside the try statements of stack: the innermost clause that
\* handles it runs, and its function returns; with none, e leaves the handler.
Raise(stack, e) ==
    LET fn == CaughtBy(stack, e) IN
    /\ raised' = e
    /\ CASE fn = "_extract_from_database" ->
              /\ result' = Success(QueryError(e), extractor.db_files)
              /\ pc' = "check"
              /\ out' = out
         [] fn = "extract_from_excel" ->
              /\ result' = IF Handler(fn, e) = "CalledProcessError"
                           THEN EparseError(e) ELSE GeneralError(e)
              /\ pc' = "check"
              /\ out' = out
         [] fn = "process_excel_file" ->
              /\ out' = ProcessingError(e)
              /\ pc' = "done"
              /\ result' = result
         [] OTHER ->
              /\ pc' = "propagated"
              /\ UNCHANGED <<result, out>>

Init ==
    /\ pc = "idle"
    /\ file = NoneValue
    /\ extractor = NoneValue
    /\ extractRuns = 0
    /\ extractProc = NoneValue
    /\ queryRuns = 0
    /\ queryProc = NoneValue
    /\ scan = "none"
    /\ raised = NoneValue
    /\ result = NoneValue
    /\ charts = <<>>
    /\ out = <<>>
    /\ db = NoneValue
    /\ reqs = [r \in RequestIds |-> NoRequest]
    /\ fs = <<>>
    /\ lpc = "shell"
    /\ choice = <<>>
    /\ prompts = 0
    /\ printed = <<>>
    /\ modules = {}
    /\ launched = {}

\* ProcessExcelFile with the extractor constructed and the tool run before the
\* test for None.
ProcessExcelFileEager ==
    /\ pc = "idle"
    /\ \E f \in Uploads :
          /\ file' = f
          /\ extractor' = [temp_dir |-> "tmpdir", db_files |-> <<>>]
          /\ IF f = NoneValue
             THEN pc' = "done" /\ out' = ErrorReturn(PromptMsg)
             ELSE pc' = "extract" /\ out' = out
    /\ UNCHANGED <<extractRuns, extractProc, queryRuns, queryProc, scan,
                   raised, result, charts>>
    /\ UNCHANGED notBasic

\* process_excel_file(file): the test for None.
ProcessExcelFile ==
    /\ pc = "idle"
    /\ \E f \in Uploads :
          /\ file' = f
          /\ IF f = NoneValue
             THEN pc' = "done" /\ out' = ErrorReturn(PromptMsg)
             ELSE pc' = "init" /\ out' = out
    /\ UNCHANGED <<extractor, extractRuns, extractProc, queryRuns, queryProc, scan,
                   raised, result, charts>>
    /\ UNCHANGED notBasic

\* extractor = ExcelExtractor(): mkdtemp makes the directory or raises.
NewExtractor ==
    /\ pc = "init"
    /\ \/ /\ extractor' = [temp_dir |-> "tmpdir", db_files |-> <<>>]
          /\ pc' = "extract"
          /\ UNCHANGED <<raised, result, out>>
       \/ /\ Raise(InProcess, OSError)
          /\ UNCHANGED extractor
    /\ UNCHANGED <<file, extractRuns, extractProc, queryRuns, queryProc, scan, charts>>
    /\ UNCHANGED notBasic

\* extract_from_excel up to the end of the first subprocess.run.
RunExtract ==
    /\ pc = "extract"
    /\ \/ \* files_dir.mkdir raises
          /\ Raise(InExtract, OSError)
          /\ UNCHANGED <<extractRuns, extractProc>>
       \/ \* the tool cannot be started
          /\ extractRuns' = extractRuns + 1
          /\ Raise(InExtract, FileNotFoundError)
          /\ UNCHANGED extractProc
       \/ \* the tool exits non-zero: check=True raises CalledProcessError
          \E err \in StderrTexts :
             /\ extractRuns' = extractRuns + 1
             /\ extractProc' = [returncode |-> 1, stdout |-> <<>>, stderr |-> err]
             /\ Raise(InExtract, CalledProcessError(err))
       \/ \* the tool exits zero
          /\ extractRuns' = extractRuns + 1
          /\ extractProc' = [returncode |-> 0, stdout |-> <<>>, stderr |-> <<>>]
          /\ pc' = "glob"
          /\ UNCHANGED <<raised, result, out>>
    /\ UNCHANGED <<file, extractor, queryRuns, queryProc, scan, charts>>
    /\ UNCHANGED notBasic

\* FindDatabases without the test of db_files: db_files[0] raises IndexError.
FindDatabasesUnchecked ==
    /\ pc = "glob"
    /\ \E found \in {<<>>, <<"mydb.db">>} :
          /\ extractor' = [extractor EXCEPT !.db_files = found]
          /\ IF found = <<>>
             THEN Raise(InExtract, IndexError)
             ELSE pc' = "query" /\ UNCHANGED <<raised, result, out>>
    /\ UNCHANGED <<file, extractRuns, extractProc, queryRuns, queryProc, scan, charts>>
    /\ UNCHANGED notBasic

\* db_files = list(files_dir.glob('*.db')) and the test that follows.
FindDatabases ==
    /\ pc = "glob"
    /\ \E found \in {<<>>, <<"mydb.db">>} :
          /\ extractor' = [extractor EXCEPT !.db_files = found]
          /\ IF found = <<>>
             THEN result' = [error |-> NoDatabaseMsg] /\ pc' = "check"
             ELSE result' = result /\ pc' = "query"
    /\ UNCHANGED <<file, extractRuns, extractProc, queryRuns, queryProc, scan, raised,
                   charts, out>>
    /\ UNCHANGED notBasic

\* RunQuery that runs the query again after a non-zero exit.
RunQueryRetry ==
    /\ pc = "query"
    /\ queryRuns' = queryRuns + 1
    /\ \/ /\ Raise(InDatabase, FileNotFoundError)
          /\ UNCHANGED queryProc
       \/ \E err \in StderrTexts :
             /\ queryProc' = [returncode |-> 1, stdout |-> <<>>, stderr |-> err]
             /\ UNCHANGED <<pc, raised, result, out>>
       \/ \E text \in Texts :
             /\ queryProc' = [returncode |-> 0, stdout |-> text, stderr |-> <<>>]
             /\ pc' = "scan"
             /\ UNCHANGED <<raised, result, out>>
    /\ UNCHANGED <<file, extractor, extractRuns, extractProc, scan, charts>>
    /\ UNCHANGED notBasic

\* _extract_from_database up to the end of its subprocess.run.
RunQuery ==
    /\ pc = "query"
    /\ queryRuns' = queryRuns + 1
    /\ \/ \* the tool cannot be started
          /\ Raise(InDatabase, FileNotFoundError)
          /\ UNCHANGED queryProc
       \/ \* the tool exits non-zero: check=True raises CalledProcessError
          \E err \in StderrTexts :
             /\ queryProc' = [returncode |-> 1, stdout |-> <<>>, stderr |-> err]
             /\ Raise(InDatabase, CalledProcessError(err))
       \/ \* the tool exits zero and has printed some text
          \E text \in Texts :
             /\ queryProc' = [returncode |-> 0, stdout |-> text, stderr |-> <<>>]
             /\ pc' = "scan"
             /\ UNCHANGED <<raised, result, out>>
    /\ UNCHANGED <<file, extractor, extractRuns, extractProc, scan, charts>>
    /\ UNCHANGED notBasic

\* data = self._parse_eparse_output(result.stdout), then the two returns.
Scan ==
    /\ pc = "scan"
    /\ IF ParseRaises(queryProc.stdout)
       THEN /\ scan' = "raised"
            /\ Raise(InDatabase, IndexError)
       ELSE /\ scan' = "returned"
            /\ \E data \in ParseEparseOutput(queryProc.stdout) :
                  result' = Success(data, extractor.db_files)
            /\ pc' = "check"
            /\ UNCHANGED <<raised, out>>
    /\ UNCHANGED <<file, extractor, extractRuns, extractProc, queryRuns, queryProc,
                   charts>>
    /\ UNCHANGED notBasic

\* if "error" in result
CheckResult ==
    /\ pc = "check"
    /\ IF "error" \in DOMAIN result
       THEN pc' = "done" /\ out' = ErrorReturn(<<"Error: ">> \o result.error)
       ELSE pc' = "viz" /\ out' = out
    /\ UNCHANGED <<file, extractor, extractRuns, extractProc, queryRuns, queryProc, scan,
                   raised, result, charts>>
    /\ UNCHANGED notBasic

\* charts = create_visualizations(result["data"])
Visualize ==
    /\ pc = "viz"
    /\ charts' = CreateVisualizations(result.data, 0)
    /\ pc' = "fmt"
    /\ UNCHANGED <<file, extractor, extractRuns, extractProc, queryRuns, queryProc, scan,
                   raised, result, out>>
    /\ UNCHANGED notBasic

\* summary_text = format_summary(result["data"]) and the return of the tuple
Summarize ==
    /\ pc = "fmt"
    /\ out' = <<FormatSummary(result.data), charts[1], charts[2], charts[3], charts[4]>>
    /\ pc' = "done"
    /\ UNCHANGED <<file, extractor, extractRuns, extractProc, queryRuns, queryProc, scan,
                   raised, result, charts>>
    /\ UNCHANGED notBasic

\* The next click of the button: a request starts from nothing but its argument.
NextRequest ==
    /\ pc = "done"
    /\ pc' = "idle"
    /\ file' = NoneValue
    /\ extractor' = NoneValue
    /\ extractRuns' = 0
    /\ extractProc' = NoneValue
    /\ queryRuns' = 0
    /\ queryProc' = NoneValue
    /\ scan' = "none"
    /\ raised' = NoneValue
    /\ result' = NoneValue
    /\ charts' = <<>>
    /\ out' = <<>>
    /\ UNCHANGED notBasic

Next ==
    \/ ProcessExcelFile
    \/ NewExtractor
    \/ RunExtract
    \/ FindDatabases
    \/ RunQuery
    \/ Scan
    \/ CheckResult
    \/ Visualize
    \/ Summarize
    \/ NextRequest

Spec == Init /\ [][Next]_vars

\* create_visualizations when the chart library raises while chart k is built:
\* the except branch of create_visualizations runs and the handler goes on.
VisualizeFails ==
    /\ pc = "viz"
    /\ \E k \in 1..4 : charts' = CreateVisualizations(result.data, k)
    /\ pc' = "fmt"
    /\ UNCHANGED <<file, extractor, extractRuns, extractProc, queryRuns, queryProc, scan,
                   raised, result, out>>
    /\ UNCHANGED notBasic

\* The handler with a chart library that may fail.
FaultNext == Next \/ VisualizeFails

FaultSpec == Init /\ [][FaultNext]_vars

----------------------------------------------------------------------------
(* app_enhanced.py: EnhancedExcelExtractor._extract_detailed_data *)

\* Longest table (in rows) the model enumerates.
MaxRows == 2

\* A str cell of the table; a NULL cell is None.
StrValue(text) == [type |-> "str", text |-> text]

\* bool(v) for a cell: None and '' are falsy.
Truthy(v) == v.type = "str" /\ v.text # <<>>

\* str(v) for a cell
PyStr(v) == IF v = NoneValue THEN <<"None">> ELSE v.text

\* The columns of the table excelparse that the code reads, in the order of
\* PRAGMA table_info.
TableColumns == <<"value", "type", "c_header", "sheet">>

SheetValues == {NoneValue, StrValue(<<>>), StrValue(<<"S1">>), StrValue(<<"S2">>)}
HeaderValues == {NoneValue, StrValue(<<"H1">>), StrValue(<<"H2">>)}
TypeValues == {NoneValue, StrValue(<<"int">>)}

\* dict(zip(columns, row)) of every row a table can hold
RowDicts ==
    [value : {StrValue(<<"7">>)}, type : TypeValues, c_header : HeaderValues,
     sheet : SheetValues]

\* The databases the glob can find: without the table excelparse, or with it
\* and up to MaxRows rows.
Databases ==
    {[tables |-> <<>>, rows |-> <<>>], [tables |-> <<"other">>, rows |-> <<>>]}
    \cup {[tables |-> <<"excelparse">>, rows |-> rows] :
             rows \in UNION {[1..n -> RowDicts] : n \in 0..MaxRows}}

\* The dict before the loop over the tables.
EmptyData ==
    [tables |-> <<>>, sheets |-> {}, columns |-> {}, total_rows |-> 0,
     data_types |-> {}, raw_data |-> <<>>, sheet_data |-> <<>>, column_data |-> <<>>]

\* Grouped without the test 'not in': the list of a key starts again at every row.
GroupedLastOnly(dict, key, row_dict) ==
    [k \in DOMAIN dict \cup {key} |-> IF k = key THEN <<row_dict>> ELSE dict[k]]

\* if key not in dict: dict[key] = []; then dict[key].append(row_dict)
Grouped(dict, key, row_dict) ==
    IF key \in DOMAIN dict
    THEN [dict EXCEPT ![key] = Append(@, row_dict)]
    ELSE [k \in DOMAIN dict \cup {key} |-> IF k = key THEN <<row_dict>> ELSE dict[k]]

\* The body of the loop over the rows.
ProcessRow(data, row_dict) ==
    LET sheet == Get(row_dict, "sheet", NoneValue)
        c_header == Get(row_dict, "c_header", NoneValue)
        type == Get(row_dict, "type", NoneValue)
        d1 == [data EXCEPT !.raw_data = Append(@, row_dict)]
        d2 == IF Truthy(sheet)
              THEN [d1 EXCEPT !.sheets = @ \cup {sheet},
                              !.sheet_data = Grouped(@, sheet, row_dict)]
              ELSE d1
        d3 == IF Truthy(c_header)
              THEN [d2 EXCEPT !.columns = @ \cup {c_header},
                              !.column_data = Grouped(@, c_header, row_dict)]
              ELSE d2
    IN  IF Truthy(type) THEN [d3 EXCEPT !.data_types = @ \cup {type}] ELSE d3

RECURSIVE ProcessRows(_, _)
ProcessRows(data, rows) ==
    IF rows = <<>> THEN data
    ELSE ProcessRows(ProcessRow(data, Head(rows)), Tail(rows))

\* The loop over the tables: only the table excelparse is read.
RECURSIVE ProcessTables(_, _, _)
ProcessTables(data, tables, rows) ==
    IF tables = <<>> THEN data
    ELSE IF Head(tables) = "excelparse"
    THEN ProcessTables(ProcessRows([data EXCEPT !.total_rows = Len(rows)], rows),
                       Tail(tables), rows)
    ELSE ProcessTables(data, Tail(tables), rows)

\* The dicts _extract_detailed_data may return for a database it can read (one
\* per order in which list() walks the three sets).
ExtractDetailedData(database) ==
    LET data == ProcessTables(EmptyData, database.tables, database.rows) IN
    {[data EXCEPT !.sheets = sl, !.columns = cl, !.data_types = tl] :
        sl \in ListOfSet(data.sheets), cl \in ListOfSet(data.columns),
        tl \in ListOfSet(data.data_types)}

----------------------------------------------------------------------------
(* app_enhanced.py: create_enhanced_visualizations and format_enhanced_summary *)

\* len(dict.get(key, []))
CountOf(dict, key) == IF key \in DOMAIN dict THEN Len(dict[key]) ELSE 0

\* Chart 1: the gauge with its three steps (bounds kept in tenths).
EnhOverviewFigure(data) ==
    LET n == Get(data, "total_rows", 0) IN
    [kind |-> "indicator", value |-> n, axis_max_tenths |-> Max(n * 12, 10),
     steps_tenths |-> <<<<0, n * 3>>, <<n * 3, n * 7>>, <<n * 7, n * 10>>>>,
     title |-> <<"Data Overview">>]

\* Charts 2 and 3: a bar per name with the length of its list in the dict of
\* key groups, or the placeholder when data.get(key) is falsy.
CountsFigure(data, key, groups, title, missing, missingTitle) ==
    LET names == Get(data, key, <<>>) IN
    IF names # <<>>
    THEN [kind |-> "bar", x |-> names,
          y |-> [i \in 1..Len(names) |-> CountOf(data[groups], names[i])],
          title |-> title]
    ELSE Placeholder(missing, missingTitle)

\* Chart 4: a slice per data type with the number of rows of that type.
TypesFigure(data) ==
    LET types == Get(data, "data_types", <<>>) IN
    IF types # <<>>
    THEN [kind |-> "pie", names |-> types,
          values |-> [i \in 1..Len(types) |->
                         Cardinality({r \in 1..Len(data.raw_data) :
                                         Get(data.raw_data[r], "type", NoneValue) = types[i]})],
          title |-> <<"Data Types Distribution">>]
    ELSE Placeholder(<<"No data type information available">>,
                     <<"Data Types Distribution">>)

\* Chart 5: the first ten rows, one list of cells per key of the first row.
SampleFigure(data) ==
    LET raw == Get(data, "raw_data", <<>>)
        sample_data == SubSeq(raw, 1, IF Len(raw) < 10 THEN Len(raw) ELSE 10)
    IN  IF raw # <<>>
        THEN [kind |-> "table", header |-> TableColumns,
              cells |-> [h \in 1..Len(TableColumns) |->
                            [r \in 1..Len(sample_data) |->
                                Get(sample_data[r], TableColumns[h], StrValue(<<>>))]],
              title |-> <<"Sample Extracted Data (First 10 Rows)">>]
        ELSE Placeholder(<<"No data available">>, <<"Sample Data">>)

\* len(set(str(row.get('value', '')) for row in data.get('raw_data', [])))
UniqueValues(data) ==
    LET raw == Get(data, "raw_data", <<>>) IN
    Cardinality({PyStr(Get(raw[r], "value", StrValue(<<>>))) : r \in 1..Len(raw)})

\* Chart 6: the table of the five numbers.
EnhSummaryFigure(data) ==
    [kind |-> "table", header |-> <<"Metric", "Value">>,
     cells |-> <<<<"Total Rows", "Sheets", "Columns", "Data Types", "Unique Values">>,
                 <<Get(data, "total_rows", 0), Len(Get(data, "sheets", <<>>)),
                   Len(Get(data, "columns", <<>>)), Len(Get(data, "data_types", <<>>)),
                   UniqueValues(data)>>>>,
     title |-> <<"Data Summary">>]

\* The figure of the except branch for chart i.
EnhErrorFigure(i, e) ==
    [kind |-> "annotation",
     text |-> <<"Chart ">> \o Str(i) \o <<": Error creating visualization - ">> \o e.msg,
     title |-> <<"Chart ">> \o Str(i)]

\* What the chart library raises when it fails.
ChartError == [cls |-> "ValueError", msg |-> <<"Invalid value">>]

\* create_enhanced_visualizations(data).  failAt = 0: no chart construction
\* raises; failAt = k in 1..6: building chart k raises, the charts appended so
\* far stay in the list and the except branch appends six more.
CreateEnhancedVisualizations(data, failAt) ==
    LET built == <<EnhOverviewFigure(data),
                   CountsFigure(data, "sheets", "sheet_data", <<"Data Points per Sheet">>,
                                <<"No sheet data available">>, <<"Sheets Distribution">>),
                   CountsFigure(data, "columns", "column_data",
                                <<"Data Points per Column">>,
                                <<"No column data available">>, <<"Columns Distribution">>),
                   TypesFigure(data), SampleFigure(data), EnhSummaryFigure(data)>>
    IN  IF failAt = 0 THEN built
        ELSE SubSeq(built, 1, failAt - 1) \o [i \in 1..6 |-> EnhErrorFigure(i, ChartError)]

\* The lines "- **name**: n data points" of a list of names
CountBullets(names, dict) ==
    [i \in 1..Len(names) |->
        <<"- **">> \o PyStr(names[i]) \o <<"**: ">> \o Str(CountOf(dict, names[i]))
        \o <<" data points">>]

\* format_enhanced_summary(data): the template with its eight substitutions
\* (the emoji of the headings are left out; the counts stay below 1,000, where
\* the format ':,' adds no separator).  The fixed text after the data types is
\* one piece.
FormatEnhancedSummary(data) ==
    <<NL, "## Enhanced Excel Data Extraction Summary", NL, NL,
      "### Data Overview", NL,
      "- **Total Data Points**: ">> \o Str(Get(data, "total_rows", 0)) \o
    <<NL, "- **Number of Sheets**: ">> \o Str(Len(Get(data, "sheets", <<>>))) \o
    <<NL, "- **Number of Columns**: ">> \o Str(Len(Get(data, "columns", <<>>))) \o
    <<NL, "- **Data Types Found**: ">> \o Str(Len(Get(data, "data_types", <<>>))) \o
    <<NL, "- **Unique Values**: ">> \o Str(UniqueValues(data)) \o
    <<NL, NL, "### Sheets Found", NL>> \o
    Join(<<NL>>, CountBullets(Get(data, "sheets", <<>>), Get(data, "sheet_data", <<>>))) \o
    <<NL, NL, "### Columns Identified", NL>> \o
    Join(<<NL>>, CountBullets(Get(data, "columns", <<>>), Get(data, "column_data", <<>>))) \o
    <<NL, NL, "### Data Types", NL>> \o
    Join(<<NL>>, [i \in 1..Len(Get(data, "data_types", <<>>)) |->
                     <<"- ">> \o PyStr(data.data_types[i])]) \o
    <<NL, NL, "### Extraction Details ... ### Analysis Capabilities ... ### Next Steps ...",
      NL>>

----------------------------------------------------------------------------
(* app_enhanced.py: the request handler process_excel_file_enhanced, step by step *)

\* The try statements around the body of each function of the enhanced app.
InEnhProcess == <<"process_excel_file_enhanced">>
InEnhExtract == <<"extract_from_excel">> \o InEnhProcess
InDetailed == <<"_extract_detailed_data">> \o InEnhExtract

\* What sqlite3 raises for a file it cannot read.
DatabaseError == [cls |-> "DatabaseError", msg |-> <<"file is not a database">>]

\* except Exception in _extract_detailed_data
DetailedError(e) == [error |-> <<"Database extraction error: ">> \o e.msg]

\* outputs=[...] of upload_btn.click in create_enhanced_interface
EnhProcessOutputs ==
    <<"summary_output", "chart1", "chart2", "chart3", "chart4", "chart5", "chart6">>

\* EnhErrorReturn with the tuple of the basic app.
EnhErrorReturnOfBasic(text) == <<text, NoneValue, NoneValue, NoneValue, NoneValue>>

\* The returns of process_excel_file_enhanced that carry no charts.
EnhErrorReturn(text) ==
    <<text, NoneValue, NoneValue, NoneValue, NoneValue, NoneValue, NoneValue>>

\* e is raised inside the try statements of stack (enhanced app).
EnhRaise(stack, e) ==
    LET fn == CaughtBy(stack, e) IN
    /\ raised' = e
    /\ CASE fn = "_extract_detailed_data" ->
              /\ result' = Success(DetailedError(e), extractor.db_files)
              /\ pc' = "e_check"
              /\ out' = out
         [] fn = "extract_from_excel" ->
              /\ result' = IF Handler(fn, e) = "CalledProcessError"
                           THEN EparseError(e) ELSE GeneralError(e)
              /\ pc' = "e_check"
              /\ out' = out
         [] fn = "process_excel_file_enhanced" ->
              /\ out' = EnhErrorReturn(<<"Error processing file: ">> \o e.msg)
              /\ pc' = "e_done"
              /\ result' = result
         [] OTHER ->
              /\ pc' = "propagated"
              /\ UNCHANGED <<result, out>>

\* The variables of the basic app that the enhanced app never touches.
queryVars == <<queryRuns, queryProc, scan>>

\* process_excel_file_enhanced(file): the test for None.
EnhProcessExcelFile ==
    /\ pc = "idle"
    /\ \E f \in Uploads :
          /\ file' = f
          /\ IF f = NoneValue
             THEN pc' = "e_done" /\ out' = EnhErrorReturn(PromptMsg)
             ELSE pc' = "e_init" /\ out' = out
    /\ UNCHANGED <<extractor, extractRuns, extractProc, raised, result, charts, db,
                   queryVars>>
    /\ UNCHANGED outside

\* extractor = EnhancedExcelExtractor(): mkdtemp makes the directory or raises.
EnhNewExtractor ==
    /\ pc = "e_init"
    /\ \/ /\ extractor' = [temp_dir |-> "tmpdir", db_files |-> <<>>,
                           extracted_data |-> <<>>]
          /\ pc' = "e_extract"
          /\ UNCHANGED <<raised, result, out>>
       \/ /\ EnhRaise(InEnhProcess, OSError)
          /\ UNCHANGED extractor
    /\ UNCHANGED <<file, extractRuns, extractProc, charts, db, queryVars>>
    /\ UNCHANGED outside

\* extract_from_excel up to the end of subprocess.run.
EnhRunExtract ==
    /\ pc = "e_extract"
    /\ \/ \* files_dir.mkdir raises
          /\ EnhRaise(InEnhExtract, OSError)
          /\ UNCHANGED <<extractRuns, extractProc>>
       \/ \* the tool cannot be started
          /\ extractRuns' = extractRuns + 1
          /\ EnhRaise(InEnhExtract, FileNotFoundError)
          /\ UNCHANGED extractProc
       \/ \* the tool exits non-zero: check=True raises CalledProcessError
          \E err \in StderrTexts :
             /\ extractRuns' = extractRuns + 1
             /\ extractProc' = [returncode |-> 1, stdout |-> <<>>, stderr |-> err]
             /\ EnhRaise(InEnhExtract, CalledProcessError(err))
       \/ \* the tool exits zero
          /\ extractRuns' = extractRuns + 1
          /\ extractProc' = [returncode |-> 0, stdout |-> <<>>, stderr |-> <<>>]
          /\ pc' = "e_glob"
          /\ UNCHANGED <<raised, result, out>>
    /\ UNCHANGED <<file, extractor, charts, db, queryVars>>
    /\ UNCHANGED outside

\* db_files = list(files_dir.glob('*.db')) and the test that follows.
EnhFindDatabases ==
    /\ pc = "e_glob"
    /\ \E found \in {<<>>, <<"found.db">>} :
          /\ extractor' = [extractor EXCEPT !.db_files = found]
          /\ IF found = <<>>
             THEN result' = [error |-> NoDatabaseMsg] /\ pc' = "e_check"
             ELSE result' = result /\ pc' = "e_read"
    /\ UNCHANGED <<file, extractRuns, extractProc, raised, charts, out, db, queryVars>>
    /\ UNCHANGED outside

\* extraction_data = self._extract_detailed_data(db_files[0]) and the return.
EnhReadDatabase ==
    /\ pc = "e_read"
    /\ \/ \* sqlite3 raises
          /\ EnhRaise(InDetailed, DatabaseError)
          /\ UNCHANGED db
       \/ \E database \in Databases :
             /\ db' = database
             /\ \E data \in ExtractDetailedData(database) :
                   result' = Success(data, extractor.db_files)
             /\ pc' = "e_check"
             /\ UNCHANGED <<raised, out>>
    /\ UNCHANGED <<file, extractor, extractRuns, extractProc, charts, queryVars>>
    /\ UNCHANGED outside

\* if "error" in result
EnhCheckResult ==
    /\ pc = "e_check"
    /\ IF "error" \in DOMAIN result
       THEN pc' = "e_done" /\ out' = EnhErrorReturn(<<"Error: ">> \o result.error)
       ELSE pc' = "e_viz" /\ out' = out
    /\ UNCHANGED <<file, extractor, extractRuns, extractProc, raised, result, charts, db,
                   queryVars>>
    /\ UNCHANGED outside

\* charts = create_enhanced_visualizations(result["data"])
EnhVisualize ==
    /\ pc = "e_viz"
    /\ charts' = CreateEnhancedVisualizations(result.data, 0)
    /\ pc' = "e_fmt"
    /\ UNCHANGED <<file, extractor, extractRuns, extractProc, raised, result, out, db,
                   queryVars>>
    /\ UNCHANGED outside

\* create_enhanced_visualizations when the chart library raises while chart k
\* is built: its except branch runs and the handler goes on.
EnhVisualizeFails ==
    /\ pc = "e_viz"
    /\ \E k \in 1..6 : charts' = CreateEnhancedVisualizations(result.data, k)
    /\ pc' = "e_fmt"
    /\ UNCHANGED <<file, extractor, extractRuns, extractProc, raised, result, out, db,
                   queryVars>>
    /\ UNCHANGED outside

\* summary_text = format_enhanced_summary(result["data"]) and the return.
EnhSummarize ==
    /\ pc = "e_fmt"
    /\ out' = <<FormatEnhancedSummary(result.data), charts[1], charts[2], charts[3],
                charts[4], charts[5], charts[6]>>
    /\ pc' = "e_done"
    /\ UNCHANGED <<file, extractor, extractRuns, extractProc, raised, result, charts, db,
                   queryVars>>
    /\ UNCHANGED outside

\* The next click of the button.
EnhNextRequest ==
    /\ pc = "e_done"
    /\ pc' = "idle"
    /\ file' = NoneValue
    /\ extractor' = NoneValue
    /\ extractRuns' = 0
    /\ extractProc' = NoneValue
    /\ raised' = NoneValue
    /\ result' = NoneValue
    /\ charts' = <<>>
    /\ out' = <<>>
    /\ db' = NoneValue
    /\ UNCHANGED queryVars
    /\ UNCHANGED outside

\* The enhanced app, with a chart library that may fail.
EnhNext ==
    \/ EnhProcessExcelFile
    \/ EnhNewExtractor
    \/ EnhRunExtract
    \/ EnhFindDatabases
    \/ EnhReadDatabase
    \/ EnhCheckResult
    \/ EnhVisualize
    \/ EnhVisualizeFails
    \/ EnhSummarize
    \/ EnhNextRequest

EnhSpec == Init /\ [][EnhNext]_vars

\* Both apps, each with a chart library that may fail.
AppsNext == FaultNext \/ EnhNext

AppsSpec == Init /\ [][AppsNext]_vars

----------------------------------------------------------------------------
(* app.py: the requests of one server process and the files they write *)

\* The names mkdtemp can give: it makes a directory that did not exist.
DirNames == 1..MaxRequests

\* Paths: a temporary directory (dir in DirNames) or the working directory
\* (dir 0), and the name below it.
TempDir(d) == [dir |-> d, name |-> ""]
FilesDir(d) == [dir |-> d, name |-> ".files"]
DbFile(d) == [dir |-> d, name |-> ".files/mydb.db"]
SampleFile == [dir |-> 0, name |-> "sample_data.xlsx"]

\* eparse_output = f"sqlite3:///{db_file}"
StorageUri(d) == <<"sqlite3:///", DbFile(d)>>

\* The file system after request r has written path.
Write(fsys, path, r, complete) ==
    [p \in DOMAIN fsys \cup {path} |->
        IF p = path
        THEN [by |-> r,
              writers |-> (IF path \in DOMAIN fsys THEN fsys[path].writers ELSE {})
                          \cup {r},
              complete |-> complete]
        ELSE fsys[p]]

\* A click of the process button: request r is process_excel_file(f).
ProcessRequest(r) ==
    /\ reqs[r].kind = "none"
    /\ \A q \in 1..(r - 1) : reqs[q].kind # "none"
    /\ \E f \in Uploads :
          reqs' = [reqs EXCEPT ![r] =
                      [@ EXCEPT !.kind = "process", !.file = f,
                                !.at = IF f = NoneValue THEN "done" ELSE "init",
                                !.returned = IF f = NoneValue THEN ErrorReturn(PromptMsg)
                                             ELSE <<>>]]
    /\ UNCHANGED <<fs, handlerVars, launcherVars>>

\* ExcelExtractor() with a directory of a fixed name in place of mkdtemp.
ReqNewExtractorFixedDir(r) ==
    /\ reqs[r].at = "init"
    /\ fs' = Write(fs, TempDir(1), r, TRUE)
    /\ reqs' = [reqs EXCEPT ![r] = [@ EXCEPT !.temp_dir = 1, !.at = "mkdir"]]
    /\ UNCHANGED <<handlerVars, launcherVars>>

\* extractor = ExcelExtractor(): mkdtemp makes a new directory, or raises and
\* the handler returns 'Error processing file: ...'.
ReqNewExtractor(r) ==
    /\ reqs[r].at = "init"
    /\ \/ \E d \in DirNames :
             /\ TempDir(d) \notin DOMAIN fs
             /\ fs' = Write(fs, TempDir(d), r, TRUE)
             /\ reqs' = [reqs EXCEPT ![r] = [@ EXCEPT !.temp_dir = d, !.at = "mkdir"]]
       \/ /\ reqs' = [reqs EXCEPT ![r] =
                         [@ EXCEPT !.error = "mkdtemp", !.at = "done",
                                   !.returned = ProcessingError(OSError)]]
          /\ UNCHANGED fs
    /\ UNCHANGED <<handlerVars, launcherVars>>

\* What the query prints in the server view: nothing, a line that makes the
\* scanner raise, a line that names a sheet.
ServerTexts == {<<>>, <<SheetMarker>>, <<SheetMarker, "A">>}

\* extract_from_excel returns the dict res to the handler of request r.
Returns(r, res) == [reqs EXCEPT ![r] = [@ EXCEPT !.result = res, !.at = "check"]]

\* files_dir.mkdir(parents=True, exist_ok=True) and the storage URI; an OSError
\* is caught by extract_from_excel.
ReqMakeFilesDir(r) ==
    /\ reqs[r].at = "mkdir"
    /\ \/ /\ fs' = Write(fs, FilesDir(reqs[r].temp_dir), r, TRUE)
          /\ reqs' = [reqs EXCEPT ![r] =
                         [@ EXCEPT !.uri = StorageUri(reqs[r].temp_dir), !.at = "run"]]
       \/ /\ reqs' = Returns(r, GeneralError(OSError))
          /\ UNCHANGED fs
    /\ UNCHANGED <<handlerVars, launcherVars>>

\* subprocess.run(['eparse', ..., '-o', eparse_output, 'parse', '-z']): the tool
\* cannot be started, or fails, or exits zero having written the database at
\* the URI or nothing.
ReqRunExtract(r) ==
    /\ reqs[r].at = "run"
    /\ \/ /\ reqs' = Returns(r, GeneralError(FileNotFoundError))
          /\ UNCHANGED fs
       \/ \E err \in StderrTexts :
             /\ reqs' = Returns(r, EparseError(CalledProcessError(err)))
             /\ UNCHANGED fs
       \/ /\ fs' = Write(fs, reqs[r].uri[2], r, TRUE)
          /\ reqs' = [reqs EXCEPT ![r] = [@ EXCEPT !.at = "glob"]]
       \/ /\ reqs' = [reqs EXCEPT ![r] = [@ EXCEPT !.at = "glob"]]
          /\ UNCHANGED fs
    /\ UNCHANGED <<handlerVars, launcherVars>>

\* db_files = list(files_dir.glob('*.db')) and the test that follows.
ReqFindDatabases(r) ==
    /\ reqs[r].at = "glob"
    /\ reqs' = IF DbFile(reqs[r].temp_dir) \in DOMAIN fs
               THEN [reqs EXCEPT ![r] = [@ EXCEPT !.at = "query"]]
               ELSE Returns(r, [error |-> NoDatabaseMsg])
    /\ UNCHANGED <<fs, handlerVars, launcherVars>>

\* _extract_from_database up to the end of its subprocess.run: the tool cannot
\* be started, or it reads the database and fails, or reads it and prints.
ReqQuery(r) ==
    /\ reqs[r].at = "query"
    /\ \/ reqs' = Returns(r, GeneralError(FileNotFoundError))
       \/ \E err \in StderrTexts :
             reqs' = [reqs EXCEPT ![r] =
                         [@ EXCEPT !.reads = fs[DbFile(reqs[r].temp_dir)].writers,
                                   !.result = Success(QueryError(CalledProcessError(err)),
                                                      <<"mydb.db">>),
                                   !.at = "check"]]
       \/ \E text \in ServerTexts :
             reqs' = [reqs EXCEPT ![r] =
                         [@ EXCEPT !.reads = fs[DbFile(reqs[r].temp_dir)].writers,
                                   !.stdout = text, !.at = "scan"]]
    /\ UNCHANGED <<fs, handlerVars, launcherVars>>

\* data = self._parse_eparse_output(result.stdout), then the two returns; the
\* IndexError of the scanner is caught by extract_from_excel.
ReqScan(r) ==
    /\ reqs[r].at = "scan"
    /\ IF ParseRaises(reqs[r].stdout)
       THEN reqs' = Returns(r, GeneralError(IndexError))
       ELSE \E data \in ParseEparseOutput(reqs[r].stdout) :
               reqs' = Returns(r, Success(data, <<"mydb.db">>))
    /\ UNCHANGED <<fs, handlerVars, launcherVars>>

\* if "error" in result
ReqCheckResult(r) ==
    /\ reqs[r].at = "check"
    /\ reqs' = [reqs EXCEPT ![r] =
                   IF "error" \in DOMAIN reqs[r].result
                   THEN [@ EXCEPT !.at = "done",
                                  !.returned = ErrorReturn(<<"Error: ">> \o
                                                           reqs[r].result.error)]
                   ELSE [@ EXCEPT !.at = "viz"]]
    /\ UNCHANGED <<fs, handlerVars, launcherVars>>

\* charts = create_visualizations(result["data"])
ReqVisualize(r) ==
    /\ reqs[r].at = "viz"
    /\ reqs' = [reqs EXCEPT ![r] =
                   [@ EXCEPT !.charts = CreateVisualizations(reqs[r].result.data, 0),
                             !.at = "fmt"]]
    /\ UNCHANGED <<fs, handlerVars, launcherVars>>

\* summary_text = format_summary(result["data"]) and the return of the tuple
ReqSummarize(r) ==
    /\ reqs[r].at = "fmt"
    /\ reqs' = [reqs EXCEPT ![r] =
                   [@ EXCEPT !.returned = <<FormatSummary(reqs[r].result.data),
                                            reqs[r].charts[1], reqs[r].charts[2],
                                            reqs[r].charts[3], reqs[r].charts[4]>>,
                             !.at = "done"]]
    /\ UNCHANGED <<fs, handlerVars, launcherVars>>

\* A click of the sample button: request r is download_sample().
DownloadRequest(r) ==
    /\ reqs[r].kind = "none"
    /\ \A q \in 1..(r - 1) : reqs[q].kind # "none"
    /\ reqs' = [reqs EXCEPT ![r] = [@ EXCEPT !.kind = "download", !.at = "open"]]
    /\ UNCHANGED <<fs, handlerVars, launcherVars>>

\* with pd.ExcelWriter(filename, ...): the file is opened for writing.
DownloadOpen(r) ==
    /\ reqs[r].at = "open"
    /\ fs' = Write(fs, SampleFile, r, FALSE)
    /\ reqs' = [reqs EXCEPT ![r] = [@ EXCEPT !.at = "save"]]
    /\ UNCHANGED <<handlerVars, launcherVars>>

\* The end of the with block saves the workbook; download_sample returns the
\* file name.
DownloadSave(r) ==
    /\ reqs[r].at = "save"
    /\ fs' = Write(fs, SampleFile, r, TRUE)
    /\ reqs' = [reqs EXCEPT ![r] = [@ EXCEPT !.at = "done", !.returned = <<SampleFile>>]]
    /\ UNCHANGED <<handlerVars, launcherVars>>

\* The handlers of concurrent requests, in any interleaving.
ReqNext ==
    \E r \in RequestIds :
        \/ ProcessRequest(r)
        \/ ReqNewExtractor(r)
        \/ ReqMakeFilesDir(r)
        \/ ReqRunExtract(r)
        \/ ReqFindDatabases(r)
        \/ ReqQuery(r)
        \/ ReqScan(r)
        \/ ReqCheckResult(r)
        \/ ReqVisualize(r)
        \/ ReqSummarize(r)
        \/ DownloadRequest(r)
        \/ DownloadOpen(r)
        \/ DownloadSave(r)

ReqSpec == Init /\ [][ReqNext]_vars

----------------------------------------------------------------------------
(* run_app.py: the launcher, and the __main__ blocks of the two apps *)

\* Most answers the model lets the user give, and the longest answer (in pieces).
MaxPrompts == 3
MaxAnswerLen == 2

\* What the user can type at the prompt.
Answers == UNION {[1..n -> {"1", "2", "3", "9", " "}] : n \in 0..MaxAnswerLen}

\* The module a choice imports.
ModuleOf(c) == IF c = <<"1">> THEN "app" ELSE "app_enhanced"

\* The word the 'Launching' and 'launched successfully' lines use for the app
\* of a choice, and the word the two error lines use.
WordOf(c) == IF c = <<"1">> THEN "Basic" ELSE "Enhanced"
LowerWordOf(c) == IF c = <<"1">> THEN "basic" ELSE "enhanced"

MenuLines ==
    <<<<"Excel Data Extraction Gradio Apps">>, <<"==================================================">>, <<"Choose which app to run:">>,
      <<"1. Basic App (app.py) - Simple extraction and visualization">>,
      <<"2. Enhanced App (app_enhanced.py) - Advanced features and detailed analysis">>,
      <<"3. Exit">>>>

LaunchingMsg(c) == <<"Launching ", WordOf(c), " Excel Extraction App...">>
SuccessMsg(c) == <<WordOf(c), " app launched successfully!">>
ImportErrorMsg(c) ==
    <<"Error importing ", LowerWordOf(c), " app: ", "No module named 'gradio'">>
DependenciesMsg ==
    <<"Make sure all dependencies are installed: pip install -r requirements.txt">>
RunErrorMsg(c) == <<"Error running ", LowerWordOf(c), " app: ", "Invalid value">>
GoodbyeMsg == <<"Goodbye!">>
InvalidMsg == <<"Invalid choice. Please enter 1, 2, or 3.">>

\* if __name__ == "__main__": demo = create_interface(); demo.launch(...)
\* The apps served once the body of module has run under the name name.
MainBlock(module, name) == IF name = "__main__" THEN {module} ELSE {}

\* python run_app.py: main() prints the menu.
RunLauncher ==
    /\ lpc = "shell"
    /\ printed' = printed \o MenuLines
    /\ lpc' = "prompt"
    /\ UNCHANGED <<choice, prompts, modules, launched, handlerVars, serverVars>>

\* python app.py or python app_enhanced.py: the module runs as __main__.
RunApp ==
    /\ lpc = "shell"
    /\ \E module \in {"app", "app_enhanced"} :
          /\ modules' = modules \cup {module}
          /\ launched' = launched \cup MainBlock(module, "__main__")
    /\ lpc' = "serving"
    /\ UNCHANGED <<choice, prompts, printed, handlerVars, serverVars>>

\* choice = input(...).strip(); input raises EOFError at the end of the input.
ReadChoice ==
    /\ lpc = "prompt"
    /\ prompts < MaxPrompts
    /\ prompts' = prompts + 1
    /\ \/ \E line \in Answers :
             /\ choice' = Strip(line)
             /\ lpc' = "dispatch"
       \/ /\ lpc' = "propagated"
          /\ UNCHANGED choice
    /\ UNCHANGED <<printed, modules, launched, handlerVars, serverVars>>

\* The if/elif chain on choice, up to the try statement.
Dispatch ==
    /\ lpc = "dispatch"
    /\ CASE choice \in {<<"1">>, <<"2">>} ->
              /\ printed' = Append(printed, LaunchingMsg(choice))
              /\ lpc' = "import"
         [] choice = <<"3">> ->
              /\ printed' = Append(printed, GoodbyeMsg)
              /\ lpc' = "exited"
         [] OTHER ->
              /\ printed' = Append(printed, InvalidMsg)
              /\ lpc' = "prompt"
    /\ UNCHANGED <<choice, prompts, modules, launched, handlerVars, serverVars>>

\* import app / import app_enhanced: the body of the module runs under its own
\* name, or the import raises; the except clauses print and the loop ends.
ImportApp ==
    /\ lpc = "import"
    /\ \/ /\ modules' = modules \cup {ModuleOf(choice)}
          /\ launched' = launched \cup MainBlock(ModuleOf(choice), ModuleOf(choice))
          /\ lpc' = "imported"
          /\ UNCHANGED printed
       \/ /\ printed' = printed \o <<ImportErrorMsg(choice), DependenciesMsg>>
          /\ lpc' = "returned"
          /\ UNCHANGED <<modules, launched>>
       \/ /\ printed' = Append(printed, RunErrorMsg(choice))
          /\ lpc' = "returned"
          /\ UNCHANGED <<modules, launched>>
    /\ UNCHANGED <<choice, prompts, handlerVars, serverVars>>

\* print("... app launched successfully!"), then break: main returns.
PrintSuccess ==
    /\ lpc = "imported"
    /\ printed' = Append(printed, SuccessMsg(choice))
    /\ lpc' = "returned"
    /\ UNCHANGED <<choice, prompts, modules, launched, handlerVars, serverVars>>

LauncherNext ==
    \/ RunLauncher
    \/ RunApp
    \/ ReadChoice
    \/ Dispatch
    \/ ImportApp
    \/ PrintSuccess

LauncherSpec == Init /\ [][LauncherNext]_vars

----------------------------------------------------------------------------
(* Properties *)

\* sub occurs in msg
ContainsText(msg, sub) ==
    \E i \in 1..(Len(msg) - Len(sub) + 1) : SubSeq(msg, i, i + Len(sub) - 1) = sub

\* text is one of the handler's two error messages
IsErrorText(text) ==
    /\ text # <<>>
    /\ text[1] \in {"Error: ", "Error processing file: "}

IsFigure(c) == "kind" \in DOMAIN c

ExtractFailed == extractProc # NoneValue /\ extractProc.returncode # 0
QueryFailed == queryProc # NoneValue /\ queryProc.returncode # 0

\* The number of lines of text that are non-empty once stripped and do not
\* start with '==='.
CountedLines(text) ==
    LET lines == Split(text, NL) IN
    Cardinality({i \in 1..Len(lines) :
                    Strip(lines[i]) # <<>> /\ ~StartsWith(lines[i], Separator)})

\* The sheet names the scanner takes from lines, each once, in the order of
\* their first line.
RECURSIVE FirstOccurrence(_, _)
FirstOccurrence(seen, lines) ==
    IF lines = <<>> THEN seen
    ELSE LET here == ScanLine([total_rows |-> 0, sheets |-> {}, columns |-> {},
                               raised |-> FALSE], Head(lines)).sheets
             new == {n \in here : \A i \in 1..Len(seen) : seen[i] # n}
         IN  FirstOccurrence(IF new = {} THEN seen ELSE Append(seen, CHOOSE n \in new : TRUE),
                             Tail(lines))

\* C1: for any text, the scanner returns normally and total_rows is the
\* number of lines of the text that are non-empty after stripping and do not
\* start with '==='.
C1_RowCountOfAnyText ==
    scan # "none" =>
        /\ scan = "returned"
        /\ result.data.total_rows = CountedLines(queryProc.stdout)

\* C2: the scanner returns the sheet names each once and in the order of
\* their first occurrence in the text.
C2_SheetsInFirstOccurrenceOrder ==
    scan = "returned" =>
        result.data.sheets = FirstOccurrence(<<>>, Split(Strip(queryProc.stdout), NL))

\* C3: when the extraction exits non-zero, extract_from_excel returns an
\* 'error' entry containing the standard-error text, and the handler returns
\* 'Error: ...' containing that text as its first output.
C3_ExtractFailureReported ==
    ExtractFailed =>
        /\ "error" \in DOMAIN result
        /\ ContainsText(result.error, extractProc.stderr)
        /\ pc = "done" =>
              /\ out[1][1] = "Error: "
              /\ ContainsText(out[1], extractProc.stderr)

C3_Witness == ExtractFailed /\ pc = "done" /\ extractProc.stderr = <<"bad workbook">>

\* C4: when the query exits non-zero after a successful extraction, the
\* handler returns an error string containing the failure text as its first
\* output, not a summary.
C4_QueryFailureReported ==
    (QueryFailed /\ pc = "done") =>
        /\ IsErrorText(out[1])
        /\ ContainsText(out[1], queryProc.stderr)

\* C5: no exception leaves process_excel_file; whenever a step raised an
\* unexpected exception (anything but the tool's non-zero exit) the handler
\* returns five values, the first an error string containing the exception's
\* message.
C5_NoExceptionEscapes ==
    /\ pc # "propagated"
    /\ pc = "done" => Len(out) = 5
    /\ (pc = "done" /\ raised # NoneValue /\ raised.cls # "CalledProcessError") =>
          /\ IsErrorText(out[1])
          /\ ContainsText(out[1], raised.msg)

C5_Witness == pc = "done" /\ scan = "raised" /\ raised = IndexError

\* C6: when the scan found no sheets (no columns), the request goes on without
\* an exception, returns no error message, and the sheets (columns) chart is
\* the 'No sheet data available' ('No column data available') placeholder.
C6_NoDataPlaceholders ==
    scan = "returned" =>
        /\ pc \in {"check", "viz", "fmt", "done"}
        /\ raised = NoneValue
        /\ "error" \notin DOMAIN result
        /\ pc = "done" =>
              /\ ~IsErrorText(out[1])
              /\ result.data.sheets = <<>> =>
                    out[3] = Placeholder(<<"No sheet data available">>, <<"Sheets Found">>)
              /\ result.data.columns = <<>> =>
                    out[4] = Placeholder(<<"No column data available">>, <<"Columns Found">>)

C6_Witness ==
    /\ pc = "done"
    /\ scan = "returned"
    /\ result.data.sheets = <<>>
    /\ result.data.columns # <<>>

\* C7: the summary is a function of the row count, the set of sheets and the
\* set of columns: every result of scanning the same text (same count, same
\* two sets) is formatted to the text the handler returned.
C7_SummaryDeterminedBySets ==
    (pc = "done" /\ scan = "returned") =>
        \A d \in ParseEparseOutput(queryProc.stdout) : FormatSummary(d) = out[1]

\* C8: every return is either a message with four None charts or the summary
\* with four figures, and a request in which a step failed never returns a
\* summary or charts.
C8_NoPartialResults ==
    pc = "done" =>
        \/ /\ out[1] = PromptMsg \/ IsErrorText(out[1])
           /\ \A i \in 2..5 : out[i] = NoneValue
        \/ /\ ~IsErrorText(out[1])
           /\ \A i \in 2..5 : IsFigure(out[i])
           /\ raised = NoneValue

\* C9: within one request the tool is started at most once for the extraction
\* and at most once for the query.
C9_NoRetries == extractRuns <= 1 /\ queryRuns <= 1

C9_Witness == pc = "done" /\ extractRuns = 1 /\ queryRuns = 1 /\ QueryFailed

\* C10: the query runs only after the extraction exited zero and a database
\* exists, the scan only after the query exited zero, and charts and summary
\* are made only after the scan returned.
C10_PipelineOrder ==
    /\ queryRuns > 0 =>
          /\ extractProc # NoneValue
          /\ extractProc.returncode = 0
          /\ extractor.db_files # <<>>
    /\ scan # "none" => (queryProc # NoneValue /\ queryProc.returncode = 0)
    /\ (charts # <<>> \/ (pc = "done" /\ IsFigure(out[2]))) => scan = "returned"

\* l[i] = l[j] only for i = j
NoRepeats(l) == \A i, j \in 1..Len(l) : l[i] = l[j] => i = j

\* The lines of the stripped text that the scanner counts.
CountedLinesOf(text) ==
    LET lines == Split(Strip(text), NL) IN
    {lines[i] : i \in {j \in 1..Len(lines) :
                          Strip(lines[j]) # <<>> /\ ~StartsWith(lines[j], Separator)}}

\* The first word after the last marker of the lines of ls that hold one.
NamesOf(ls, marker) ==
    {SplitWords(AfterLast(l, marker))[1] :
        l \in {x \in ls : Contains(x, marker) /\ SplitWords(AfterLast(x, marker)) # <<>>}}

\* C13: in every result of the scanner total_rows is a non-negative integer
\* and neither the sheets list nor the columns list holds a name twice.
C13_CountsAndNoRepeats ==
    scan = "returned" =>
        /\ result.data.total_rows \in Nat
        /\ NoRepeats(result.data.sheets)
        /\ NoRepeats(result.data.columns)

C13_Witness ==
    /\ scan = "returned"
    /\ Len(result.data.sheets) = 1
    /\ LET lines == Split(Strip(queryProc.stdout), NL) IN
       Cardinality({i \in 1..Len(lines) : Contains(lines[i], SheetMarker)}) = 2

\* C17: when the extraction exited zero and no '*.db' file exists,
\* extract_from_excel returns the error 'No database files created', the query
\* is never run, and the handler returns 'Error: No database files created'
\* with no charts.
C17_NoDatabaseReported ==
    (/\ extractProc # NoneValue
     /\ extractProc.returncode = 0
     /\ pc \in {"check", "done"}
     /\ extractor.db_files = <<>>) =>
        /\ result = [error |-> <<"No database files created">>]
        /\ queryRuns = 0
        /\ queryProc = NoneValue
        /\ pc = "done" =>
              out = <<<<"Error: ", "No database files created">>,
                      NoneValue, NoneValue, NoneValue, NoneValue>>

C17_Witness ==
    /\ pc = "done"
    /\ extractProc # NoneValue
    /\ extractProc.returncode = 0
    /\ extractor.db_files = <<>>

\* C18: every sheet and column name of a result comes from a counted line (a
\* line that is empty or starts with '===' gives none), so there are at most
\* total_rows sheets and at most total_rows columns.
C18_NamesFromCountedLines ==
    scan = "returned" =>
        LET counted == CountedLinesOf(queryProc.stdout)
            data == result.data
        IN  /\ \A i \in 1..Len(data.sheets) :
                  data.sheets[i] \in NamesOf(counted, SheetMarker)
            /\ \A i \in 1..Len(data.columns) :
                  data.columns[i] \in NamesOf(counted, ColMarker)
            /\ Len(data.sheets) <= data.total_rows
            /\ Len(data.columns) <= data.total_rows

C18_Witness ==
    /\ scan = "returned"
    /\ result.data.sheets = <<>>
    /\ LET lines == Split(Strip(queryProc.stdout), NL) IN
       \E i \in 1..Len(lines) :
          StartsWith(lines[i], Separator) /\ Contains(lines[i], SheetMarker)

\* C15: create_visualizations returns exactly four figures: the overview, the
\* sheets chart, the columns chart and the summary table in this order, or,
\* when building a chart failed, the four error figures and nothing else.
C15_ExactlyFourFigures ==
    pc = "fmt" =>
        /\ Len(charts) = 4
        /\ \/ charts = <<OverviewFigure(result.data), SheetsChart(result.data),
                         ColumnsChart(result.data), TableFigure(result.data)>>
           \/ \A i \in 1..4 :
                 ContainsText(charts[i].text, <<": Error creating visualization">>)

\* C14: on every path the handler returns one value per output pane bound to
\* the process button, the charts being figures or None: five values in the
\* basic app, seven in the enhanced app.
C14_TupleMatchesPanes ==
    /\ pc = "done" =>
          /\ Len(out) = Len(ProcessOutputs)
          /\ Len(out) = 5
          /\ \A i \in 2..Len(out) : out[i] = NoneValue \/ IsFigure(out[i])
    /\ pc = "e_done" =>
          /\ Len(out) = Len(EnhProcessOutputs)
          /\ Len(out) = 7
          /\ \A i \in 2..Len(out) : out[i] = NoneValue \/ IsFigure(out[i])

C14_Witness ==
    /\ pc = "e_done"
    /\ raised = NoneValue
    /\ out[7] # NoneValue

\* C16: a call of either handler with no file returns 'Please upload an Excel
\* file.' with every chart None and changes nothing else: no extractor (and so
\* no temporary directory) is made and the tool is not run.
C16_NoFileFrame ==
    [][(pc = "idle" /\ pc' # "idle" /\ file' = NoneValue) =>
          /\ pc' \in {"done", "e_done"}
          /\ out'[1] = <<"Please upload an Excel file.">>
          /\ \A i \in 2..Len(out') : out'[i] = NoneValue
          /\ Len(out') = IF pc' = "done" THEN 5 ELSE 7
          /\ UNCHANGED <<extractor, extractRuns, extractProc, queryRuns, queryProc,
                         scan, raised, result, charts, db>>
          /\ extractor = NoneValue /\ extractRuns = 0 /\ queryRuns = 0]_vars

C16_Witness ==
    /\ pc = "done"
    /\ file = NoneValue
    /\ out = <<<<"Please upload an Excel file.">>, NoneValue, NoneValue, NoneValue,
               NoneValue>>

\* The rows of rows whose cell key is v, in the order of rows.
RowsOf(rows, key, v) == SelectSeq(rows, LAMBDA r : r[key] = v)

\* The sum of the lengths of the lists of dict.
RECURSIVE SumOfLens(_, _)
SumOfLens(dict, keys) ==
    IF keys = {} THEN 0
    ELSE LET k == CHOOSE x \in keys : TRUE
         IN  Len(dict[k]) + SumOfLens(dict, keys \ {k})

\* The relations between the list of names, the dict of groups and the table.
GroupsAgree(names, groups, rows, key, total_rows) ==
    /\ DOMAIN groups = {names[i] : i \in 1..Len(names)}
    /\ \A s \in DOMAIN groups :
          /\ groups[s] # <<>>
          /\ groups[s] = RowsOf(rows, key, s)
    /\ SumOfLens(groups, DOMAIN groups) <= total_rows

\* C19: in every non-error result of _extract_detailed_data the keys of
\* sheet_data are the sheets, each sheet_data[s] is the non-empty list of the
\* rows of sheet s in table order, the lists together hold at most total_rows
\* rows, total_rows is the length of raw_data, and the same holds for
\* column_data and columns.
C19_GroupsMatchTable ==
    (db # NoneValue /\ pc \in {"e_check", "e_viz", "e_fmt", "e_done"}) =>
        LET data == result.data IN
        /\ "error" \notin DOMAIN data
        /\ data.total_rows = Len(data.raw_data)
        /\ data.raw_data = db.rows
        /\ GroupsAgree(data.sheets, data.sheet_data, db.rows, "sheet", data.total_rows)
        /\ GroupsAgree(data.columns, data.column_data, db.rows, "c_header",
                       data.total_rows)

C19_Witness ==
    /\ pc = "e_check"
    /\ db # NoneValue
    /\ Len(db.rows) = 2
    /\ db.rows[1] # db.rows[2]
    /\ \E s \in DOMAIN result.data.sheet_data : Len(result.data.sheet_data[s]) = 2

\* The temporary directories request r has made.
DirsOf(r) ==
    {d \in DirNames : TempDir(d) \in DOMAIN fs /\ r \in fs[TempDir(d)].writers}

\* Request r is an upload that the handler has started to process.
ProcessedUpload(r) ==
    /\ reqs[r].kind = "process"
    /\ reqs[r].file # NoneValue
    /\ reqs[r].at \notin {"new", "init"}

\* The directory and the storage URI of r are those of no other request, and
\* the directory still exists.
OwnDirectory(r) ==
    /\ \A q \in RequestIds \ {r} :
          /\ DirsOf(q) \cap DirsOf(r) = {}
          /\ reqs[r].uri # <<>> => reqs[q].uri # reqs[r].uri
    /\ reqs[r].temp_dir # 0 =>
          /\ TempDir(reqs[r].temp_dir) \in DOMAIN fs
          /\ reqs[r].uri \in {<<>>, StorageUri(reqs[r].temp_dir)}

\* C11 as stated: every processed upload has made exactly one temporary
\* directory, which no other request has (nor its storage URI), and which has
\* not been deleted.
C11_OneDirPerUpload ==
    \A r \in RequestIds :
        ProcessedUpload(r) =>
            /\ Cardinality(DirsOf(r)) = 1
            /\ OwnDirectory(r)

\* C11, amended: an upload whose mkdtemp call succeeded has made exactly one
\* temporary directory, which no other request has (nor its storage URI) and
\* which is never deleted; an upload whose mkdtemp call raised, an upload of no
\* file and a download have made none.
C11_OneDirPerExtractor ==
    \A r \in RequestIds :
        /\ (ProcessedUpload(r) /\ reqs[r].error # "mkdtemp") =>
              DirsOf(r) = {reqs[r].temp_dir} /\ reqs[r].temp_dir \in DirNames
        /\ (~ProcessedUpload(r) \/ reqs[r].error = "mkdtemp") =>
              DirsOf(r) = {} /\ reqs[r].temp_dir = 0
        /\ OwnDirectory(r)

C11_Witness ==
    \E r, q \in RequestIds :
        /\ r # q
        /\ reqs[r].at = "done" /\ reqs[q].at = "done"
        /\ reqs[r].temp_dir # 0 /\ reqs[q].temp_dir # 0
        /\ reqs[r].uri # <<>> /\ reqs[q].uri # <<>>

\* C12: whatever the interleaving of process and download requests, every file
\* or directory has been written by one request only, lies in the temporary
\* directory of that request's extractor, and a request has read only what it
\* wrote itself.
C12_RequestsShareNothing ==
    /\ \A p \in DOMAIN fs :
          /\ Cardinality(fs[p].writers) = 1
          /\ \A r \in fs[p].writers :
                reqs[r].temp_dir # 0 /\ p.dir = reqs[r].temp_dir
    /\ \A r \in RequestIds : reqs[r].reads \subseteq {r}

\* msg is one of the lines printed so far
Printed(msg) == \E i \in 1..Len(printed) : printed[i] = msg

\* C20: in a run of the launcher, the app of choice 1 or 2 is being served when
\* its 'launched successfully' line is printed; an answer other than 1, 2 or 3
\* serves nothing and leads back to the prompt, and choice 3 exits with nothing
\* served.
C20_LaunchedBeforeMessage ==
    lpc \notin {"shell", "serving"} =>
        /\ \A c \in {<<"1">>, <<"2">>} : Printed(SuccessMsg(c)) => ModuleOf(c) \in launched
        /\ (lpc = "prompt" /\ prompts > 0) =>
              /\ choice \notin {<<"1">>, <<"2">>, <<"3">>}
              /\ printed[Len(printed)] = InvalidMsg
              /\ launched = {}
        /\ lpc = "exited" => choice = <<"3">> /\ launched = {}

====
